---- MODULE Spec2Model ----
(***************************************************************************)
(* Enrichment session of POST /api/enrich: the rolling-window scheduler,   *)
(* processRow, AgentEnrichmentStrategy.enrichRow with its domain cache,    *)
(* the DELETE cancel endpoint, and one call of AgentOrchestrator.enrichRow *)
(* with runDiscoveryAgent and the provider adapters under it.              *)
(*                                                                         *)
(* The session runs on one JavaScript event loop.  A macrotask (an I/O     *)
(* completion or the DELETE request) runs only when nothing else runs and  *)
(* the microtask queue is empty; the promise jobs it schedules are then    *)
(* run in FIFO order before the next macrotask.                            *)
(***************************************************************************)
EXTENDS Integers, Sequences, FiniteSets, TLC

\* Largest number of rows in a request.
MaxRows == 3

\* Largest number of rows in a request followed to the end of its stream.
MaxLiveRows == 2

\* ENRICHMENT_CONFIG.CONCURRENT_ROWS
CONCURRENT_ROWS == 10

\* Window sizes the configuration constant is set to.
ConcurrencyChoices == {1, 2, CONCURRENT_ROWS}

\* The requested EnrichmentField names.
RequestedFields == {"companyName"}

SessionId == "s1"

(***************************************************************************)
(* Strings are sequences of tokens; the empty string is <<>>.              *)
(***************************************************************************)
Range(s) == {s[k] : k \in DOMAIN s}

LowerToken(t) ==
    CASE t = "WWW." -> "www."
      [] t = "Acme.com" -> "acme.com"
      [] t = "Other.io" -> "other.io"
      [] t = "Acme" -> "acme"
      [] t = "Inc" -> "inc"
      [] t = "Other" -> "other"
      [] t = "Nome" -> "nome"
      [] t = "Empresa" -> "empresa"
      [] t = "Key" -> "key"
      [] t = "Insights" -> "insights"
      [] t = "Principais" -> "principais"
      [] t = "Descrição" -> "descrição"
      [] OTHER -> t

\* String.prototype.toLowerCase
ToLowerCase(s) == [k \in 1..Len(s) |-> LowerToken(s[k])]

RECURSIVE TrimStart(_)
TrimStart(s) == IF Len(s) > 0 /\ s[1] = " " THEN TrimStart(Tail(s)) ELSE s

RECURSIVE TrimEnd(_)
TrimEnd(s) ==
    IF Len(s) > 0 /\ s[Len(s)] = " " THEN TrimEnd(SubSeq(s, 1, Len(s) - 1)) ELSE s

\* String.prototype.trim
Trim(s) == TrimEnd(TrimStart(s))

\* s.replace(/^www\./, '')
StripWww(s) == IF Len(s) > 0 /\ s[1] = "www." THEN Tail(s) ELSE s

\* s.replace(/^https?:\/\//, '')
StripScheme(s) ==
    IF Len(s) > 0 /\ s[1] \in {"http://", "https://"} THEN Tail(s) ELSE s

\* /\./.test(s)
DotTokens == {".", "www.", "WWW.", "acme.com", "Acme.com", "other.io", "Other.io",
              "gmail.com"}
HasDot(s) == \E t \in Range(s) : t \in DotTokens

\* s.includes(sub)
Includes(s, sub) ==
    \E k \in 1..(Len(s) - Len(sub) + 1) : SubSeq(s, k, k + Len(sub) - 1) = sub

\* email.includes('@')
IncludesAt(s) == "@" \in Range(s)

RECURSIVE UntilAt(_)
UntilAt(s) ==
    IF Len(s) = 0 \/ s[1] = "@" THEN <<>> ELSE <<s[1]>> \o UntilAt(Tail(s))

RECURSIVE AfterAt(_)
AfterAt(s) ==
    IF Len(s) = 0 THEN <<>> ELSE IF s[1] = "@" THEN Tail(s) ELSE AfterAt(Tail(s))

\* email.split('@')[1]
SplitAt1(s) == UntilAt(AfterAt(s))

\* a || b on strings
OrElse(a, b) == IF a # <<>> THEN a ELSE b

(***************************************************************************)
(* Input rows: columns email, company_domain, domain.                      *)
(***************************************************************************)
MkRow(e, cd, d) == [email |-> e, company_domain |-> cd, domain |-> d]

RowChoices ==
    { MkRow(<<>>, <<>>, <<>>),
      MkRow(<<"x", "@", "gmail.com">>, <<>>, <<>>),
      MkRow(<<"c", "@", "other.io">>, <<" ", "WWW.", "Acme.com">>, <<>>),
      MkRow(<<"d", "@", "Other.io">>, <<>>, <<>>) }

\* A null element of body.rows: the request validation only looks at
\* rows.length, so the JSON body may carry one.
NullRow == [null |-> TRUE]
SessionRowChoices == RowChoices \cup {NullRow}

\* One row of each kind the scheduling loop tells apart: null, without
\* email, on the skip list, and to be enriched.
LiveRowChoices == {r \in SessionRowChoices : r = NullRow \/ r.company_domain = <<>>}

\* Domains of the skip list (common webmail providers).
SkipDomains == {"gmail.com"}

\* shouldSkipEmail(email, skipList)
ShouldSkipEmail(email) ==
    \E t \in Range(ToLowerCase(SplitAt1(email))) : t \in SkipDomains

\* getSkipReason(email, skipList)
GetSkipReason(email) == "Personal email provider"

\* explicitDomain / emailDomain / primaryDomain of AgentEnrichmentStrategy.enrichRow
PrimaryDomain(row) ==
    LET explicitDomain == ToLowerCase(Trim(OrElse(row.company_domain, row.domain)))
        emailDomain == IF IncludesAt(row.email)
                         THEN ToLowerCase(SplitAt1(row.email)) ELSE <<>>
    IN  StripWww(OrElse(explicitDomain, emailDomain))

VARIABLES
    rows,            \* body.rows
    concurrency,     \* ENRICHMENT_CONFIG.CONCURRENT_ROWS of this deployment
    activeSessions,  \* session ids registered in the activeSessions map
    aborted,         \* abortController.signal.aborted
    deleteResponse,  \* HTTP status answered by the step just taken, when it
                     \* was a DELETE request (0: it was not)
    events,          \* what controller.enqueue has put on the stream, in order,
                     \* but for the agent_progress events
    progress,        \* the agent_progress events put on the stream
    closed,          \* controller.close() has run
    mainPc,          \* position of start(controller)
    currentIndex,    \* currentIndex of the scheduling loop
    activePromises,  \* activePromises, as the row index of each promise
    raceWatch,       \* the promises handed to the pending Promise.race
    rowPc,           \* position of processRow(i)
    microtasks,      \* promise jobs queued on the event loop
    domainCache,     \* AgentEnrichmentStrategy.domainCache
    providerCalls,   \* rows for which runDiscoveryAgent was called
    discovery,       \* the call of AgentOrchestrator.enrichRow, or of an adapter,
                     \* followed on its own
    reconcile,       \* the field loop of AgentOrchestrator.enrichRow, followed on
                     \* its own
    snov,            \* the Snov token cache, the clock and the calls of the Snov
                     \* tool under way
    research         \* the web-research cache, the objects it holds and the
                     \* call of runDiscoveryAgent that builds on one of them

vars == <<research, snov, reconcile, discovery, rows, concurrency, activeSessions, aborted, deleteResponse, events,
          progress, closed, mainPc, currentIndex, activePromises, raceWatch, rowPc,
          microtasks, domainCache, providerCalls>>

NumRows == Len(rows)
RowIdx == 0..(NumRows - 1)
Row(i) == rows[i + 1]

InFlightPcs == {"noemail", "skiplist", "orch"}
InFlight == {i \in RowIdx : rowPc[i] \in InFlightPcs}

(***************************************************************************)
(* Stream events.                                                          *)
(***************************************************************************)
NoRow == MkRow(<<>>, <<>>, <<>>)

Event(t, i, st, en, msg) ==
    [type |-> t, rowIndex |-> i, status |-> st, enrichments |-> en, message |-> msg,
     error |-> "", originalData |-> NoRow]

SessionEvent == Event("session", -1, "-", {}, SessionId)
PendingEvent(i) == Event("pending", i, "-", {}, "-")
ProcessingEvent(i) == Event("processing", i, "-", {}, "-")
ProgressEvent(i, msg) == Event("agent_progress", i, "-", {}, msg)
CompleteEvent == Event("complete", -1, "-", {}, "-")
CancelledEvent == Event("cancelled", -1, "-", {}, "-")
ErrorEvent == Event("error", -1, "-", {}, "error.message")
ResultEvent(res) ==
    [type |-> "result", rowIndex |-> res.rowIndex, status |-> res.status,
     enrichments |-> res.enrichments, message |-> "-", error |-> res.error,
     originalData |-> res.originalData]

\* A RowEnrichmentResult as the strategy and the orchestrator build it.
RowResult(row, st, en, err) ==
    [rowIndex |-> 0, originalData |-> row, status |-> st, enrichments |-> en,
     error |-> err]

\* The skipped result of processRow and of the strategy.
SkipResultNoReason(row) == RowResult(row, "skipped", {}, "")
SkipResult(row) == RowResult(row, "skipped", {}, GetSkipReason(row.email))

\* The result of the strategy for a row without email.
NoEmailResultSkipped(row) == RowResult(row, "skipped", {}, "")
NoEmailResult(row) == RowResult(row, "error", {}, "No email found in specified column")

\* The result the catch blocks build from an exception.
ErrorResult(row) == RowResult(row, "error", {}, "error.message")

\* The result of a cache hit and of a successful orchestrator run.
CompletedResult(row, en) == RowResult(row, "completed", en, "")

\* result.rowIndex = i
SetRowIndexOmitted(res, i) == res
SetRowIndex(res, i) == [res EXCEPT !.rowIndex = i]

\* abortController.signal.aborted
SignalAbortedNever == FALSE
SignalAborted == aborted

\* activePromises.length < concurrency
HasCapacityOffByOne == Len(activePromises) <= concurrency
HasCapacity == Len(activePromises) < concurrency

\* currentIndex < rows.length || activePromises.length > 0
LoopContinuesQueueOnly == currentIndex < NumRows
LoopContinues == currentIndex < NumRows \/ Len(activePromises) > 0

\* The promises of activePromises whose .then callback has run.
ThenFulfilled == {i \in RowIdx : rowPc[i] = "settled" /\ i \notin Range(activePromises)}

\* Promise.race(ps) settles as soon as one of ps has settled.
PromiseAll(ps) == \A p \in ps : p \in ThenFulfilled
PromiseRace(ps) == \E p \in ps : p \in ThenFulfilled

\* domain && this.domainCache.has(domain)
CacheHitNever(domain) == FALSE
CacheHit(domain) == domain # <<>> /\ domain \in DOMAIN domainCache

\* this.domainCache.set(domain, filteredEnrichments)
DomainCacheSetUnfiltered(domain, en) ==
    [d \in (DOMAIN domainCache) \cup {domain} |->
        IF d = domain THEN RequestedFields ELSE domainCache[d]]
DomainCacheSet(domain, en) ==
    [d \in (DOMAIN domainCache) \cup {domain} |->
        IF d = domain THEN en ELSE domainCache[d]]

\* What runDiscoveryAgent and the reconciliation come back with: discovery
\* throws, or the requested fields are resolved.
DiscoveryOutcomes ==
    {[ok |-> FALSE, enrichments |-> {}], [ok |-> TRUE, enrichments |-> RequestedFields]}

(***************************************************************************)
(* Event-loop discipline.                                                  *)
(***************************************************************************)
\* Where start(controller) is once its catch and finally blocks have run.
AfterCatchLoops == "loop"
AfterCatch == "done"

\* The promises of activePromises that are already rejected: processRow
\* threw and the .then promise has passed the rejection on.
RejectedPromisesNone == <<>>
RejectedPromises == SelectSeq(activePromises, LAMBDA p : rowPc[p] = "passed")

MainRunning == mainPc \in {"loop", "inner"}
Idle == mainPc \in {"await", "done"} /\ microtasks = <<>>
Job(k, i) == [kind |-> k, row |-> i]
HeadIs(k) == ~MainRunning /\ microtasks # <<>> /\ Head(microtasks).kind = k

(***************************************************************************)
(* The provider adapters.  A call meets one transport outcome.             *)
(***************************************************************************)
TransportOutcomes == {"ok", "network", "non2xx", "malformed", "auth"}

\* What a tool's execute gives its caller: a value, or an exception.
Returned(data) == [threw |-> FALSE, data |-> data]
Thrown == [threw |-> TRUE, data |-> "-"]

\* createExploriumTool(...).execute: fetch, response.ok, response.json(), and
\* the catch block that logs and rethrows.
ExploriumExecute(mode) ==
    LET fetchRejects == mode = "network"
        responseOk == mode \in {"ok", "malformed"}
        jsonRejects == mode = "malformed"
        tryThrows == fetchRejects \/ ~responseOk \/ jsonRejects
    IN  IF tryThrows THEN Thrown ELSE Returned("data")

\* getSnovAccessToken: null once the retries are used up.
GetSnovAccessToken(mode) == mode \notin {"network", "auth"}

\* snovPost / snovGet: throw once the retries are used up.
SnovRequestThrows(mode) == mode \in {"network", "non2xx", "malformed", "auth"}

\* createSnovTool(...).execute
SnovExecute(mode) ==
    IF ~GetSnovAccessToken(mode) THEN Returned("has_data: false")
    ELSE IF SnovRequestThrows(mode) THEN Returned("has_data: false")
    ELSE Returned("has_data: true")

(***************************************************************************)
(* createApolloTool(...).execute: the record of the provider, or the       *)
(* fallback built from the hints.                                          *)
(***************************************************************************)
Unknown == <<"unknown">>

ApolloRecord(n, w, i, c, t) ==
    [kind |-> "record", name |-> n, website_url |-> w, industry |-> i,
     country |-> c, top_competitors |-> t]

ApolloResponses ==
    { [kind |-> "unreachable", name |-> <<>>, website_url |-> <<>>,
       industry |-> <<>>, country |-> <<>>, top_competitors |-> <<>>],
      [kind |-> "empty", name |-> <<>>, website_url |-> <<>>,
       industry |-> <<>>, country |-> <<>>, top_competitors |-> <<>>],
      ApolloRecord(<<"Acme", " ", "Inc">>, <<"https://", "www.", "Acme.com">>,
                   <<"saas">>, <<"BR">>, <<"Rival">>),
      ApolloRecord(<<"Acme", " ", "Inc">>, <<"other.io">>,
                   <<"saas">>, <<"BR">>, <<"Rival">>),
      ApolloRecord(<<"Other">>, <<"acme.com">>, <<"saas">>, <<"BR">>, <<>>),
      ApolloRecord(<<"acme.com">>, <<" ", "www.", "acme.com">>,
                   <<"saas">>, <<>>, <<"Rival">>),
      ApolloRecord(<<>>, <<>>, <<>>, <<>>, <<>>) }

ApolloExecute(name, domain, resp) ==
    IF resp.kind = "record"
      THEN [company_name |-> OrElse(resp.name, OrElse(name, domain)),
            company_domain |-> OrElse(resp.website_url, domain),
            company_industry |-> OrElse(resp.industry, Unknown),
            company_country |-> OrElse(resp.country, Unknown),
            company_competitors |-> resp.top_competitors]
      ELSE [company_name |-> OrElse(name, domain),
            company_domain |-> domain,
            company_industry |-> Unknown,
            company_country |-> Unknown,
            company_competitors |-> <<>>]

\* snovData of runDiscoveryAgent: null without credentials or on an
\* exception, else what createSnovTool(...).execute returns.
SnovOutcomes ==
    { [isNull |-> TRUE, has_data |-> FALSE, company_name |-> <<>>,
       website |-> <<>>, industry |-> <<>>],
      [isNull |-> FALSE, has_data |-> FALSE, company_name |-> <<>>,
       website |-> <<>>, industry |-> <<>>],
      [isNull |-> FALSE, has_data |-> TRUE, company_name |-> <<"Acme", " ", "Snov">>,
       website |-> <<"www.", "acme.com">>, industry |-> <<>>] }

(***************************************************************************)
(* createWebResearchTool(...).execute.  The news fetchers catch their own  *)
(* failures and yield no items; what decides the outcome is what           *)
(* openai.chatCompletionJSON does.                                         *)
(***************************************************************************)
\* Largest number of signals the language model lists.
MaxSignals == 8

\* enrichedSignals.slice(0, 7)
SignalCap == 7

\* A priority_signals list of the model: signal objects, with or without a
\* null element at its end, or with a minor signal at its head.
SignalLists ==
    LET objects == {[k \in 1..n |-> "signal"] : n \in 0..MaxSignals}
    IN  objects \cup {Append(SubSeq(l, 1, Len(l) - 1), "null") : l \in objects \ {<<>>}}
                \cup {<<"minor">> \o SubSeq(l, 2, Len(l)) : l \in objects \ {<<>>}}

LlmJson(n, f, l) ==
    [kind |-> "json", company_name |-> n, data_freshness |-> f,
     overall_signal_strength |-> "high", priority_signals |-> l]

\* What chatCompletionJSON does: it throws, or it returns null or a JSON
\* object with a company_analysis, with or without the data_freshness key.
LlmOutcomes ==
    { [kind |-> "throws", company_name |-> <<>>, data_freshness |-> FALSE,
       overall_signal_strength |-> "high", priority_signals |-> <<>>],
      [kind |-> "null", company_name |-> <<>>, data_freshness |-> FALSE,
       overall_signal_strength |-> "high", priority_signals |-> <<>>] }
    \cup {LlmJson(<<"Acme", " ", "Web">>, f, l) : f \in BOOLEAN, l \in SignalLists}

\* s.weight and daysAgo(s.date) <= 30 as the model answers them: a signal
\* object has weight 4 and a date within 30 days, a minor one weight 2 and
\* no date.
SignalWeight(s) == IF s = "minor" THEN 2 ELSE 4
SignalRecent(s) == s # "minor"

\* newWeight of signals.map: max(1, min(5, baseW + (recDays <= 30 ? 1 : 0)))
NewWeight(s) ==
    LET w == SignalWeight(s) + (IF SignalRecent(s) THEN 1 ELSE 0)
    IN  IF w < 1 THEN 1 ELSE IF w > 5 THEN 5 ELSE w

\* The share of one enriched signal in the score: its weight, and 2 more
\* when it is recent.
SignalScore(s) == NewWeight(s) + (IF SignalRecent(s) THEN 2 ELSE 0)

RECURSIVE SumScore(_)
SumScore(signals) ==
    IF signals = <<>> THEN 0
    ELSE SignalScore(Head(signals)) + SumScore(Tail(signals))

\* momentumScore(signals)
MomentumScore(signals) ==
    LET score == SumScore(signals)
    IN  IF score >= 20 THEN "high" ELSE IF score >= 10 THEN "medium" ELSE "low"

\* signals.map(...) reads s.weight of every element.
MapThrows(signals) == "null" \in Range(signals)

\* enrichedSignals.slice(0, 7)
PrioritySignalsUnsliced(signals) == signals
PrioritySignalsSlice(signals) ==
    SubSeq(signals, 1, IF Len(signals) < SignalCap THEN Len(signals) ELSE SignalCap)

WebResult(isNull, n, f, st, l) ==
    [isNull |-> isNull, company_name |-> n, data_freshness |-> f,
     overall_signal_strength |-> st, priority_signals |-> l]

NoWebResult == WebResult(TRUE, <<>>, FALSE, "low", <<>>)

\* execute: the value of chatCompletionJSON after the post-processing, or as
\* it came when the post-processing throws (null has no company_analysis to
\* assign to; a null signal has no weight to read).
WebResearchExecute(llm) ==
    IF llm.kind = "throws" THEN [threw |-> TRUE, data |-> NoWebResult]
    ELSE IF llm.kind = "null" THEN Returned(NoWebResult)
    ELSE IF MapThrows(llm.priority_signals)
      THEN Returned(WebResult(FALSE, llm.company_name, llm.data_freshness,
                              llm.overall_signal_strength, llm.priority_signals))
    ELSE Returned(WebResult(FALSE, llm.company_name, llm.data_freshness,
                            MomentumScore(llm.priority_signals),
                            PrioritySignalsSlice(llm.priority_signals)))

(***************************************************************************)
(* runDiscoveryAgent: the aggregation of the provider answers.             *)
(***************************************************************************)
\* email.match(/@([^\s@]+)$/)
MatchDomain(email) ==
    IF Len(email) >= 2 /\ email[Len(email) - 1] = "@"
                       /\ email[Len(email)] \notin {"@", " "}
      THEN <<email[Len(email)]>> ELSE <<>>

\* normalizeDomain(d)
NormalizeDomain(d) == Trim(StripWww(StripScheme(ToLowerCase(d))))

DomainMismatchApollo(domain, apolloData) ==
    LET requestedDomain == IF domain # <<>> THEN NormalizeDomain(domain) ELSE <<>>
        returnedDomainApollo ==
            IF apolloData.company_domain # <<>>
              THEN NormalizeDomain(apolloData.company_domain) ELSE <<>>
    IN  /\ requestedDomain # <<>> /\ returnedDomainApollo # <<>>
        /\ requestedDomain # returnedDomainApollo

NameLooksLikeDomainApollo(apolloData) ==
    LET returnedNameApollo == Trim(ToLowerCase(apolloData.company_name))
    IN  returnedNameApollo # <<>> /\ HasDot(returnedNameApollo)

NameMismatchApollo(name, apolloData) ==
    LET requestedName == Trim(ToLowerCase(name))
        returnedNameApollo == Trim(ToLowerCase(apolloData.company_name))
    IN  /\ requestedName # <<>> /\ returnedNameApollo # <<>>
        /\ ~Includes(returnedNameApollo, requestedName)

\* apolloOK
ApolloOKDomainOnly(name, domain, apolloData) ==
    ~DomainMismatchApollo(domain, apolloData)
ApolloOK(name, domain, apolloData) ==
    /\ ~DomainMismatchApollo(domain, apolloData)
    /\ ~NameMismatchApollo(name, apolloData)
    /\ ~NameLooksLikeDomainApollo(apolloData)

Pick(v, src) == [value |-> v, source |-> src]

FirmographicFields ==
    {"company_name", "company_domain", "company_industry", "company_country",
     "company_competitors"}

\* picks: the best source per field.  The web research answer carries no
\* firmographic key but company_name.
Picks(name, domain, apolloData, snovData, webResult) ==
    LET apolloOK == ApolloOK(name, domain, apolloData)
        snovName == Trim(snovData.company_name)
        snovWebsite == NormalizeDomain(Trim(snovData.website))
        snovIndustry == Trim(snovData.industry)
        snovHasData == ~snovData.isNull /\ snovData.has_data
        webName == IF webResult.isNull THEN <<>> ELSE webResult.company_name
    IN  [company_name |->
            IF apolloOK /\ apolloData.company_name # <<>>
              THEN Pick(apolloData.company_name, "apollo")
            ELSE IF snovHasData /\ snovName # <<>> THEN Pick(snovName, "snov")
            ELSE IF webName # <<>> THEN Pick(webName, "web")
            ELSE Pick(name, "input"),
         company_domain |->
            IF apolloOK /\ apolloData.company_domain # <<>>
              THEN Pick(apolloData.company_domain, "apollo")
            ELSE IF snovHasData /\ snovWebsite # <<>> THEN Pick(snovWebsite, "snov")
            ELSE Pick(domain, "input"),
         company_industry |->
            IF apolloOK /\ apolloData.company_industry # <<>>
              THEN Pick(apolloData.company_industry, "apollo")
            ELSE IF snovHasData /\ snovIndustry # <<>> THEN Pick(snovIndustry, "snov")
            ELSE Pick(Unknown, "unknown"),
         company_country |->
            IF apolloOK /\ apolloData.company_country # <<>>
              THEN Pick(apolloData.company_country, "apollo")
            ELSE Pick(Unknown, "unknown"),
         company_competitors |->
            IF apolloOK /\ Len(apolloData.company_competitors) > 0
              THEN Pick(apolloData.company_competitors, "apollo")
            ELSE Pick(<<>>, "unknown")]

\* sourceLabel
SourceLabelOfName(picks) == picks.company_name.source
SourceLabel(picks) ==
    LET sourcesUsed == {picks[f].source : f \in FirmographicFields}
    IN  IF Cardinality(sourcesUsed) > 1 THEN "multiple"
        ELSE CHOOSE src \in sourcesUsed : TRUE

\* baseResult: the web research answer, or the literal used in its place.
BaseResult(webResult) ==
    IF webResult.isNull
      THEN WebResult(FALSE, <<>>, TRUE, "medium", <<>>)
      ELSE webResult

\* CompanyAnalysisResult.parse(baseResult) throws: data_freshness is a
\* required string and every element of priority_signals an object.
ParseThrows(base) ==
    ~base.data_freshness \/ "null" \in Range(base.priority_signals)

CompanyAnalysis(picks, src, st, l) ==
    [picks |-> picks, source |-> src, overall_signal_strength |-> st,
     priority_signals |-> l]

NoAnalysis ==
    CompanyAnalysis([f \in FirmographicFields |-> Pick(<<>>, "unknown")],
                    "unknown", "low", <<>>)

\* AgentOrchestrator.enrichRow after runDiscoveryAgent: the derived mapping
\* of the requested fields.
Derived(analysis) == [companyName |-> analysis.picks.company_name.value]

\* normalizeValue(v) !== undefined: a string is kept, the empty one too.
NormalizeValueDefined(v) == Len(v) >= 0

OrchestratorEnrichments(analysis) ==
    {f \in RequestedFields : NormalizeValueDefined(Derived(analysis)[f])}

\* Rows and name hints handed to the orchestrator.
DiscoveryEmails == {<<"jane", "@", "Acme.com">>, <<"jane">>}
NameHints == {<<>>, <<"Acme">>}

NoAdapterCall == [adapter |-> "-", mode |-> "-", threw |-> FALSE, data |-> "-"]
NoApolloData == ApolloExecute(<<>>, <<>>, CHOOSE r \in ApolloResponses : r.kind = "empty")
NoSnovData == CHOOSE d \in SnovOutcomes : d.isNull

\* No call of the orchestrator or of an adapter is under way.
DiscoveryIdle ==
    [pc |-> "idle", email |-> <<>>, name |-> <<>>, domain |-> <<>>,
     adapterCall |-> NoAdapterCall, apolloKind |-> "-", apolloData |-> NoApolloData,
     snovData |-> NoSnovData, llmKind |-> "-", llmSignals |-> 0,
     webResult |-> NoWebResult, analysis |-> NoAnalysis,
     result |-> ErrorResult(NoRow)]


(***************************************************************************)
(* AgentOrchestrator.enrichRow: the reconciliation of the requested fields *)
(* with a company analysis.                                                *)
(***************************************************************************)
\* JavaScript values: a type and a text.
JsUndefined == [type |-> "undefined", val |-> ""]
JsNull == [type |-> "null", val |-> ""]
JsString(s) == [type |-> "string", val |-> s]
JsNumber(s) == [type |-> "number", val |-> s]
JsArray(s) == [type |-> "array", val |-> s]
JsObject(s) == [type |-> "object", val |-> s]

RECURSIVE Join(_)
Join(s) == IF s = <<>> THEN "" ELSE Head(s) \o Join(Tail(s))

\* .normalize('NFD').replace(/\p{Diacritic}/gu, '')
StripDiacritics(s) ==
    [k \in 1..Len(s) |-> IF s[k] = "descrição" THEN "descricao" ELSE s[k]]

\* .replace(/[^a-z0-9]/g, '')
StripNonAlnum(s) == SelectSeq(s, LAMBDA t : t \notin {" ", "_", "-"})

\* normalized: the field name in lower case without diacritics, spaces and
\* punctuation.
NormalizeFieldName(name) == Join(StripNonAlnum(StripDiacritics(ToLowerCase(name))))

\* The own properties of companyAnalysis the model varies, and the values
\* they take; a key left out of the record is an absent property.
AnalysisBase ==
    [company_name |-> JsString("Acme"),
     overall_signal_strength |-> JsString("high"),
     signals_by_category |-> JsObject("{mercado: 1}"),
     personalization_hooks |-> JsArray("[hook]"),
     search_date |-> JsString("2025-01-01"),
     data_freshness |-> JsString("fresh"),
     priority_signals |-> JsArray("[{title}]")]

Analyses ==
    {AnalysisBase @@ extra :
        extra \in {<<>>} \cup {[key_insights |-> v] : v \in {JsString("saas notes"), JsNull}}
                         \cup {[total_signals_found |-> JsNumber("3")]}
                         \cup {[key_insights |-> JsString("notes"),
                                total_signals_found |-> JsNumber("3")]}}

\* companyAnalysis[key], undefined for an absent property.
Get(ca, key) == IF key \in DOMAIN ca THEN ca[key] ELSE JsUndefined

\* inferIndustry(analysis): the label of the first keyword found in the
\* texts of the analysis, else 'unknown'.
InferIndustry(ca) ==
    IF Get(ca, "key_insights") = JsString("saas notes")
      THEN JsString("SaaS") ELSE JsString("unknown")

\* derived
DerivedMap(ca) ==
    [companyName |-> Get(ca, "company_name"),
     companyDescription |-> Get(ca, "key_insights"),
     industry |-> InferIndustry(ca),
     keyInsights |-> Get(ca, "key_insights"),
     signalStrength |-> Get(ca, "overall_signal_strength"),
     signalsFound |-> Get(ca, "total_signals_found"),
     signalsByCategory |-> Get(ca, "signals_by_category"),
     personalizationHooks |-> Get(ca, "personalization_hooks"),
     searchDate |-> Get(ca, "search_date"),
     dataFreshness |-> Get(ca, "data_freshness"),
     prioritySignals |-> Get(ca, "priority_signals")]

DerivedKeys == DOMAIN DerivedMap(AnalysisBase)

\* aliasMap, its English/camel part.
EnglishAliases ==
    [companyname |-> "companyName",
     companydescription |-> "companyDescription",
     industry |-> "industry",
     keyinsights |-> "keyInsights",
     signalstrength |-> "signalStrength",
     signalsfound |-> "signalsFound",
     personalizationhooks |-> "personalizationHooks",
     signalsbycategory |-> "signalsByCategory",
     prioritysignals |-> "prioritySignals",
     searchdate |-> "searchDate",
     datafreshness |-> "dataFreshness"]

\* aliasMap, its Portuguese part.
PortugueseAliases ==
    [empresa |-> "companyName",
     nomeempresa |-> "companyName",
     nomedaempresa |-> "companyName",
     descricao |-> "companyDescription",
     descricaoempresa |-> "companyDescription",
     descricaodaempresa |-> "companyDescription",
     industria |-> "industry",
     setor |-> "industry",
     segmento |-> "industry",
     forcadosinal |-> "signalStrength",
     forcasinal |-> "signalStrength",
     intensidadesinal |-> "signalStrength",
     sinaisencontrados |-> "signalsFound",
     totalsinais |-> "signalsFound",
     ganchospersonalizacao |-> "personalizationHooks",
     personalizacaoganchos |-> "personalizationHooks",
     sinaisporcategoria |-> "signalsByCategory",
     categoriassinais |-> "signalsByCategory",
     sinaisprioritarios |-> "prioritySignals",
     topsinais |-> "prioritySignals",
     datapesquisa |-> "searchDate",
     databusca |-> "searchDate",
     recenciadados |-> "dataFreshness",
     freshnessdados |-> "dataFreshness"]

AliasMap == EnglishAliases @@ PortugueseAliases

\* normalizeValue(v)
NormalizeValueKeepsNull(v) ==
    IF v.type = "undefined" THEN JsUndefined
    ELSE IF v.type = "object" THEN JsString(v.val)
    ELSE v
NormalizeValue(v) ==
    IF v.type \in {"null", "undefined"} THEN JsUndefined
    ELSE IF v.type = "object" THEN JsString(v.val)
    ELSE v

\* let value: unknown = undefined, at the head of every turn of the loop.
LoopValueCarried(last) == last
LoopValue(last) == JsUndefined

\* Steps 1 to 3 of one turn of the loop: the direct property, the derived
\* mapping, the alias mapping.  No executive field is requested.
ResolveField(ca, name, value) ==
    LET key == Join(name)
        direct == IF key \in DOMAIN ca THEN ca[key] ELSE value
        mapped == IF direct = JsUndefined /\ key \in DerivedKeys
                    THEN DerivedMap(ca)[key] ELSE direct
        normalized == NormalizeFieldName(name)
    IN  IF mapped = JsUndefined /\ normalized \in DOMAIN AliasMap
                                /\ AliasMap[normalized] \in DerivedKeys
          THEN DerivedMap(ca)[AliasMap[normalized]]
          ELSE mapped

\* enrichments[field.name] = {...} when normalized !== undefined
SetEnrichment(en, key, v) ==
    IF NormalizeValue(v) = JsUndefined THEN en
    ELSE [k \in (DOMAIN en) \cup {key} |-> IF k = key THEN NormalizeValue(v) ELSE en[k]]

NoEnrichments == [k \in {} |-> JsUndefined]

\* Names of requested fields, and the lists of them handed to enrichRow.
MaxFields == 2
FieldNames ==
    { <<"companyName">>, <<"company_name">>, <<"Nome", " ", "da", " ", "Empresa">>,
      <<"Key", "_", "Insights">>, <<"key_insights">>, <<"Principais", " ", "Insights">>,
      <<"Descrição">>, <<"signalsFound">>, <<"foo">> }

RECURSIVE FieldLists(_)
FieldLists(n) ==
    IF n = 0 THEN {<<>>}
    ELSE FieldLists(n - 1)
            \cup {Append(l, f) : l \in {m \in FieldLists(n - 1) : Len(m) = n - 1},
                                 f \in FieldNames}

ReconcileIdle ==
    [pc |-> "idle", analysis |-> AnalysisBase, fields |-> <<>>, k |-> 1, pass |-> 1,
     value |-> JsUndefined, enrichments |-> NoEnrichments, first |-> NoEnrichments]


(***************************************************************************)
(* snov-tool.ts: the token cache and the retry loops.                      *)
(***************************************************************************)
MaxCallers == 2
MaxTime == 1
Callers == 1..MaxCallers

\* maxAttempts of getSnovAccessToken and of snovPost / snovGet
TokenMaxAttempts == 3
SnovMaxAttempts == 4

\* The expiry skew of the cached token (60_000 ms), in minutes, and the
\* lifetimes (expires_in) the token endpoint answers.
TokenSkew == 1
ExpiresInChoices == {1, 2}

\* tokenCache.token && tokenCache.expiresAt && tokenCache.expiresAt > now + 60_000
TokenValid(cache, now) == cache.token /\ cache.expiresAt > now + TokenSkew

\* What fetch does for the token request and for an API request.
TokenResponses == {"ok", "empty", "fail", "error"}
RequestResponses == {"ok", "429", "fail", "error"}

\* waitMs of the 429 branch: Math.min(1500 * attempts, 5000) after attempts++
BackoffCapMs == 5000
RateLimitWaitMs(attempts) ==
    IF 1500 * attempts < BackoffCapMs THEN 1500 * attempts ELSE BackoffCapMs

\* attempts++ after a 429 answer
AttemptsAfter429Unchanged(attempts) == attempts
AttemptsAfter429(attempts) == attempts + 1

CallerIdle ==
    [pc |-> "idle", attempts |-> 0, fetches |-> 0,
     saw429 |-> FALSE, sawOther |-> FALSE]

SnovIdle ==
    [now |-> 0, tokenCache |-> [token |-> FALSE, expiresAt |-> 0],
     callers |-> [c \in Callers |-> CallerIdle]]


(***************************************************************************)
(* The cache of the web research tool and the overlays of                  *)
(* runDiscoveryAgent on the object it returns.                             *)
(***************************************************************************)
\* Largest number of company_analysis objects the web research creates.
MaxObjects == 2

\* Last instant of the clock, counted in units of CACHE_TTL_MS.
MaxResearchTime == 1

\* CACHE_TTL_MS, in the unit of the clock
CacheTtl == 1

\* normalizeKey(name, domain, 'unknown', 'unknown')
ResearchKeys == {"acme|acme.com|unknown|unknown", "|other.io|unknown|unknown"}

\* A field that is not set.
Absent == "-"

\* What chatCompletionJSON gives the web research: an object, or null.
ResearchLlmKinds == {"ok", "null"}

\* options.linkedin_url / the LinkedIn URL of the Apollo answers of a row
LinkedinChoices == {Absent, "linkedin.com/in/jane", "linkedin.com/company/acme"}

\* emailVerification.status of a row
VerificationChoices == {Absent, "valid"}

\* sourceLabel of a row
LabelChoices == {"web", "multiple"}

\* json as the web research stores and returns it.
RawAnalysis == [source |-> Absent, linkedin_url |-> Absent, email_verification |-> Absent]

\* cached && (Date.now() - cached.ts) < CACHE_TTL_MS
ResearchCacheHit(cache, key, now) == key \in DOMAIN cache /\ now - cache[key].ts < CacheTtl

\* researchCache.set(cacheKey, { ts: Date.now(), data: json })
ResearchCacheSet(cache, key, now, ref) ==
    [k \in (DOMAIN cache) \cup {key} |->
        IF k = key THEN [ts |-> now, data |-> ref] ELSE cache[k]]

\* The assignments of runDiscoveryAgent to baseResult.company_analysis.
Overlaid(obj, call) ==
    [obj EXCEPT
        !.source = call.label,
        !.linkedin_url = IF call.linkedin # Absent THEN call.linkedin ELSE @,
        !.email_verification =
            IF call.verification # Absent THEN call.verification ELSE @]

NoCall == [key |-> Absent, linkedin |-> Absent, verification |-> Absent,
           label |-> Absent, base |-> 0]

\* No call under way, an empty cache and no object; the reference 0 is null.
ResearchIdle ==
    [now |-> 0, researchCache |-> [k \in {} |-> [ts |-> 0, data |-> 0]], heap |-> <<>>,
     pc |-> "idle", call |-> NoCall, analysis |-> RawAnalysis]


Init ==
    /\ rows \in UNION {[1..n -> RowChoices] : n \in 1..MaxRows}
    /\ concurrency \in ConcurrencyChoices
    /\ activeSessions = {SessionId}
    /\ aborted = FALSE
    /\ deleteResponse = 0
    /\ events = <<>>
    /\ progress = {}
    /\ closed = FALSE
    /\ mainPc = "init"
    /\ currentIndex = 0
    /\ activePromises = <<>>
    /\ raceWatch = {}
    /\ rowPc = [i \in RowIdx |-> "queued"]
    /\ microtasks = <<>>
    /\ domainCache = [d \in {} |-> {}]
    /\ providerCalls = {}
    /\ discovery = DiscoveryIdle
    /\ reconcile = ReconcileIdle
    /\ snov = SnovIdle
    /\ research = ResearchIdle

\* start(controller): the session event and one pending event per row.
StreamStart ==
    /\ mainPc = "init"
    /\ events' = <<SessionEvent>> \o [k \in 1..NumRows |-> PendingEvent(k - 1)]
    /\ mainPc' = "loop"
    /\ deleteResponse' = 0
    /\ UNCHANGED <<research, snov, reconcile, discovery, rows, concurrency, activeSessions, aborted,
                   progress, closed, currentIndex, activePromises, raceWatch,
                   rowPc, microtasks, domainCache, providerCalls>>

\* The head of the outer while loop, the cancellation check, and what follows
\* the loop: the complete event and the finally block.
LoopHead ==
    /\ mainPc = "loop"
    /\ IF LoopContinues /\ ~SignalAborted
         THEN /\ mainPc' = "inner"
              /\ UNCHANGED <<events, closed, activeSessions>>
         ELSE /\ events' = (IF LoopContinues
                              THEN Append(events, CancelledEvent)
                              ELSE events) \o <<CompleteEvent>>
              /\ activeSessions' = activeSessions \ {SessionId}
              /\ closed' = TRUE
              /\ mainPc' = "done"
    /\ deleteResponse' = 0
    /\ UNCHANGED <<research, snov, reconcile, discovery, rows, concurrency, aborted, progress,
                   currentIndex, activePromises, raceWatch, rowPc, microtasks,
                   domainCache, providerCalls>>

\* One turn of the inner while loop: processRow(currentIndex++) up to its
\* first suspension, and the push of its promise.  On a null row
\* row[emailColumn] throws and the promise of processRow is rejected.
StartRow ==
    /\ mainPc = "inner"
    /\ currentIndex < NumRows /\ HasCapacity
    /\ LET i == currentIndex
           email == Row(i).email
       IN  /\ currentIndex' = i + 1
           /\ activePromises' = Append(activePromises, i)
           /\ IF SignalAborted
                THEN /\ rowPc' = [rowPc EXCEPT ![i] = "settled"]
                     /\ microtasks' = Append(microtasks, Job("then", i))
                     /\ UNCHANGED events
                ELSE IF Row(i) = NullRow
                THEN /\ rowPc' = [rowPc EXCEPT ![i] = "threw"]
                     /\ microtasks' = Append(microtasks, Job("then", i))
                     /\ UNCHANGED events
                ELSE IF email # <<>> /\ ShouldSkipEmail(email)
                THEN /\ events' = Append(events,
                            ResultEvent([SkipResult(Row(i)) EXCEPT !.rowIndex = i]))
                     /\ rowPc' = [rowPc EXCEPT ![i] = "settled"]
                     /\ microtasks' = Append(microtasks, Job("then", i))
                ELSE /\ events' = Append(events, ProcessingEvent(i))
                     /\ IF email = <<>>
                          THEN /\ rowPc' = [rowPc EXCEPT ![i] = "noemail"]
                               /\ microtasks' = Append(microtasks, Job("cont", i))
                          ELSE /\ rowPc' = [rowPc EXCEPT ![i] = "skiplist"]
                               /\ UNCHANGED microtasks
    /\ deleteResponse' = 0
    /\ UNCHANGED <<research, snov, reconcile, discovery, rows, concurrency, activeSessions, aborted,
                   progress, closed, mainPc, raceWatch, domainCache,
                   providerCalls>>

\* The inner loop is over: await Promise.race(activePromises).  The race
\* reacts at once to the promises that are already rejected.
AwaitRace ==
    /\ mainPc = "inner"
    /\ ~(currentIndex < NumRows /\ HasCapacity)
    /\ IF Len(activePromises) > 0
         THEN /\ mainPc' = "await"
              /\ raceWatch' = Range(activePromises)
              /\ microtasks' = microtasks \o
                     [k \in 1..Len(RejectedPromises) |-> Job("race", RejectedPromises[k])]
         ELSE /\ mainPc' = "loop"
              /\ UNCHANGED <<raceWatch, microtasks>>
    /\ deleteResponse' = 0
    /\ UNCHANGED <<research, snov, reconcile, discovery, rows, concurrency, activeSessions, aborted,
                   events, progress, closed, currentIndex, activePromises, rowPc,
                   domainCache, providerCalls>>

\* processRow(i) from the value of enrichRow to its end: the result event, or
\* the rejection of the promise when the stream is closed (enqueue throws in
\* the try block and again in the catch block).
Deliver(i, res, rest) ==
    IF closed
      THEN /\ rowPc' = [rowPc EXCEPT ![i] = "rejected"]
           /\ microtasks' = rest
           /\ UNCHANGED events
      ELSE /\ events' = Append(events, ResultEvent(SetRowIndex(res, i)))
           /\ rowPc' = [rowPc EXCEPT ![i] = "settled"]
           /\ microtasks' = Append(rest, Job("then", i))

\* onAgentProgress(message, ...) as processRow passes it: an agent_progress
\* event; on a closed stream enqueue throws instead.
OnAgentProgress(i, msg) ==
    progress' = IF closed THEN progress ELSE progress \cup {ProgressEvent(i, msg)}

\* enrichRow returned at once for a row without email; processRow resumes.
ContinueNoEmail ==
    /\ HeadIs("cont")
    /\ LET i == Head(microtasks).row
       IN  Deliver(i, NoEmailResult(Row(i)), Tail(microtasks))
    /\ deleteResponse' = 0
    /\ UNCHANGED <<research, snov, reconcile, discovery, rows, concurrency, activeSessions, aborted,
                   progress, closed, mainPc, currentIndex, activePromises,
                   raceWatch, domainCache, providerCalls>>

\* enrichRow after await loadSkipList(): skip check, cache lookup, and on a
\* miss the call of the orchestrator up to runDiscoveryAgent.  A throw of
\* onAgentProgress is caught and turned into an error result.
SkipListLoaded(i) ==
    /\ Idle
    /\ rowPc[i] = "skiplist"
    /\ LET domain == PrimaryDomain(Row(i))
       IN  IF ShouldSkipEmail(Row(i).email)
             THEN /\ Deliver(i, SkipResult(Row(i)), microtasks)
                  /\ UNCHANGED <<progress, domainCache, providerCalls>>
           ELSE IF CacheHit(domain)
             THEN /\ OnAgentProgress(i, "Cache hit")
                  /\ Deliver(i, IF closed THEN ErrorResult(Row(i))
                                          ELSE CompletedResult(Row(i), domainCache[domain]),
                             microtasks)
                  /\ UNCHANGED <<domainCache, providerCalls>>
           ELSE /\ OnAgentProgress(i, "Starting discovery")
                /\ IF closed
                     THEN /\ domainCache' = IF domain # <<>>
                                              THEN DomainCacheSet(domain, {})
                                              ELSE domainCache
                          /\ Deliver(i, ErrorResult(Row(i)), microtasks)
                          /\ UNCHANGED providerCalls
                     ELSE /\ providerCalls' = providerCalls \cup {i}
                          /\ rowPc' = [rowPc EXCEPT ![i] = "orch"]
                          /\ UNCHANGED <<events, microtasks, domainCache>>
    /\ deleteResponse' = 0
    /\ UNCHANGED <<research, snov, reconcile, discovery, rows, concurrency, activeSessions, aborted,
                   closed, mainPc, currentIndex, activePromises, raceWatch>>

\* runDiscoveryAgent settles: the rest of AgentOrchestrator.enrichRow, the
\* cache write of the strategy, and the end of processRow.
OrchestratorDone(i, out) ==
    /\ Idle
    /\ rowPc[i] = "orch"
    /\ LET domain == PrimaryDomain(Row(i))
           res == IF out.ok /\ ~closed
                    THEN CompletedResult(Row(i), out.enrichments)
                    ELSE ErrorResult(Row(i))
       IN  /\ IF out.ok THEN OnAgentProgress(i, "Discovery completed")
                        ELSE UNCHANGED progress
           /\ domainCache' = IF domain # <<>>
                               THEN DomainCacheSet(domain, res.enrichments)
                               ELSE domainCache
           /\ Deliver(i, res, microtasks)
    /\ deleteResponse' = 0
    /\ UNCHANGED <<research, snov, reconcile, discovery, rows, concurrency, activeSessions, aborted,
                   closed, mainPc, currentIndex, activePromises, raceWatch,
                   providerCalls>>

\* The .then callback of a row's promise: splice it out of activePromises.
\* When processRow threw, the callback is not called: the promise stays in
\* activePromises and is rejected in its turn.
ThenCallback ==
    /\ HeadIs("then")
    /\ LET i == Head(microtasks).row
       IN  IF rowPc[i] = "threw"
             THEN /\ rowPc' = [rowPc EXCEPT ![i] = "passed"]
                  /\ microtasks' = IF mainPc = "await" /\ i \in raceWatch
                                     THEN Append(Tail(microtasks), Job("race", i))
                                     ELSE Tail(microtasks)
                  /\ UNCHANGED activePromises
             ELSE /\ activePromises' = SelectSeq(activePromises, LAMBDA p : p # i)
                  /\ microtasks' = Append(Tail(microtasks), Job("race", i))
                  /\ UNCHANGED rowPc
    /\ deleteResponse' = 0
    /\ UNCHANGED <<research, snov, reconcile, discovery, rows, concurrency, activeSessions, aborted,
                   events, progress, closed, mainPc, currentIndex, raceWatch,
                   domainCache, providerCalls>>

\* The reaction Promise.race registered on a row's promise.
RaceReaction ==
    /\ HeadIs("race")
    /\ IF mainPc = "await" /\ rowPc[Head(microtasks).row] = "passed"
         THEN /\ mainPc' = "raceRejected"
              /\ microtasks' = Append(Tail(microtasks), Job("main", -1))
         ELSE IF mainPc = "await" /\ PromiseRace(raceWatch)
         THEN /\ mainPc' = "resolved"
              /\ microtasks' = Append(Tail(microtasks), Job("main", -1))
         ELSE /\ microtasks' = Tail(microtasks)
              /\ UNCHANGED mainPc
    /\ deleteResponse' = 0
    /\ UNCHANGED <<research, snov, reconcile, discovery, rows, concurrency, activeSessions, aborted,
                   events, progress, closed, currentIndex, activePromises,
                   raceWatch, rowPc, domainCache, providerCalls>>

\* start(controller) resumes after await Promise.race: the next turn of the
\* loop, or, when the race was rejected, the catch block (the error event)
\* and the finally block.
MainResume ==
    /\ HeadIs("main")
    /\ IF mainPc = "raceRejected"
         THEN /\ events' = Append(events, ErrorEvent)
              /\ activeSessions' = activeSessions \ {SessionId}
              /\ closed' = TRUE
              /\ mainPc' = AfterCatch
         ELSE /\ mainPc' = "loop"
              /\ UNCHANGED <<events, activeSessions, closed>>
    /\ microtasks' = Tail(microtasks)
    /\ deleteResponse' = 0
    /\ UNCHANGED <<research, snov, reconcile, discovery, rows, concurrency, aborted,
                   progress, currentIndex, activePromises,
                   raceWatch, rowPc, domainCache, providerCalls>>

\* const controller = activeSessions.get(sessionId); if (controller)
ControllerFoundAlways == TRUE
ControllerFound == SessionId \in activeSessions

\* DELETE /api/enrich?sessionId=...
Delete ==
    /\ Idle
    /\ IF ControllerFound
         THEN /\ aborted' = TRUE
              /\ activeSessions' = activeSessions \ {SessionId}
              /\ deleteResponse' = 200
         ELSE /\ deleteResponse' = 404
              /\ UNCHANGED <<aborted, activeSessions>>
    /\ UNCHANGED <<research, snov, reconcile, discovery, rows, concurrency, events, progress, closed, mainPc,
                   currentIndex, activePromises, raceWatch, rowPc, microtasks,
                   domainCache, providerCalls>>

Next ==
    \/ StreamStart
    \/ LoopHead
    \/ StartRow
    \/ AwaitRace
    \/ ContinueNoEmail
    \/ \E i \in RowIdx : SkipListLoaded(i)
    \/ \E i \in RowIdx : \E out \in DiscoveryOutcomes : OrchestratorDone(i, out)
    \/ ThenCallback
    \/ RaceReaction
    \/ MainResume
    \/ Delete

Spec == Init /\ [][Next]_vars

(***************************************************************************)
(* Sessions whose rows may be null, and the rejection at start-up.         *)
(***************************************************************************)
InitSession ==
    /\ rows \in UNION {[1..n -> SessionRowChoices] : n \in 1..MaxRows}
    /\ concurrency \in ConcurrencyChoices
    /\ activeSessions = {SessionId}
    /\ aborted = FALSE
    /\ deleteResponse = 0
    /\ events = <<>>
    /\ progress = {}
    /\ closed = FALSE
    /\ mainPc = "init"
    /\ currentIndex = 0
    /\ activePromises = <<>>
    /\ raceWatch = {}
    /\ rowPc = [i \in RowIdx |-> "queued"]
    /\ microtasks = <<>>
    /\ domainCache = [d \in {} |-> {}]
    /\ providerCalls = {}
    /\ discovery = DiscoveryIdle
    /\ reconcile = ReconcileIdle
    /\ snov = SnovIdle
    /\ research = ResearchIdle

\* POST after activeSessions.set: an API key or an Azure setting is missing,
\* the request is answered with status 500 and no stream is created.  The
\* session id was never sent, so no DELETE request can name it.
RejectMissingConfig ==
    /\ mainPc = "init"
    /\ mainPc' = "rejected500"
    /\ deleteResponse' = 0
    /\ UNCHANGED <<research, snov, reconcile, discovery, rows, concurrency, activeSessions, aborted,
                   events, progress, closed, currentIndex, activePromises,
                   raceWatch, rowPc, microtasks, domainCache, providerCalls>>

NextSession == Next \/ RejectMissingConfig

SpecSession == InitSession /\ [][NextSession]_vars

\* The steps the event loop takes on its own: start(controller) while it
\* runs, and the promise jobs in the order they were queued.
EventLoop ==
    \/ StreamStart
    \/ LoopHead
    \/ StartRow
    \/ AwaitRace
    \/ ContinueNoEmail
    \/ ThenCallback
    \/ RaceReaction
    \/ MainResume

\* The enrichment of a started row comes back.
RowsSettle ==
    \/ \E i \in RowIdx : SkipListLoaded(i)
    \/ \E i \in RowIdx : \E out \in DiscoveryOutcomes : OrchestratorDone(i, out)

\* A session whose event loop keeps running and whose started rows all come
\* back; DELETE requests may arrive or not.
InitLive ==
    /\ rows \in UNION {[1..n -> LiveRowChoices] : n \in 1..MaxLiveRows}
    /\ concurrency \in ConcurrencyChoices
    /\ activeSessions = {SessionId}
    /\ aborted = FALSE
    /\ deleteResponse = 0
    /\ events = <<>>
    /\ progress = {}
    /\ closed = FALSE
    /\ mainPc = "init"
    /\ currentIndex = 0
    /\ activePromises = <<>>
    /\ raceWatch = {}
    /\ rowPc = [i \in RowIdx |-> "queued"]
    /\ microtasks = <<>>
    /\ domainCache = [d \in {} |-> {}]
    /\ providerCalls = {}
    /\ discovery = DiscoveryIdle
    /\ reconcile = ReconcileIdle
    /\ snov = SnovIdle
    /\ research = ResearchIdle

SpecLive == InitLive /\ [][Next]_vars /\ WF_vars(EventLoop) /\ WF_vars(RowsSettle)

(***************************************************************************)
(* One call of AgentOrchestrator.enrichRow, and single adapter calls.      *)
(***************************************************************************)
schedVars == <<rows, concurrency, activeSessions, aborted, deleteResponse, events,
               progress, closed, mainPc, currentIndex, activePromises, raceWatch,
               rowPc, microtasks, domainCache, providerCalls>>

InitDiscovery ==
    /\ rows = <<>>
    /\ concurrency = CONCURRENT_ROWS
    /\ activeSessions = {}
    /\ aborted = FALSE
    /\ deleteResponse = 0
    /\ events = <<>>
    /\ progress = {}
    /\ closed = FALSE
    /\ mainPc = "init"
    /\ currentIndex = 0
    /\ activePromises = <<>>
    /\ raceWatch = {}
    /\ rowPc = [i \in {} |-> "queued"]
    /\ microtasks = <<>>
    /\ domainCache = [d \in {} |-> {}]
    /\ providerCalls = {}
    /\ discovery = DiscoveryIdle
    /\ reconcile = ReconcileIdle
    /\ snov = SnovIdle
    /\ research = ResearchIdle

\* exploriumTool.execute({ domain })
ExploriumCall(mode) ==
    /\ discovery.pc = "idle"
    /\ LET out == ExploriumExecute(mode)
       IN  discovery' = [discovery EXCEPT
                !.pc = "adapter",
                !.adapterCall = [adapter |-> "explorium", mode |-> mode,
                                 threw |-> out.threw, data |-> out.data]]
    /\ UNCHANGED <<research, snov, reconcile, schedVars>>

\* snov.execute({ domain, includeProspects: true })
SnovCall(mode) ==
    /\ discovery.pc = "idle"
    /\ LET out == SnovExecute(mode)
       IN  discovery' = [discovery EXCEPT
                !.pc = "adapter",
                !.adapterCall = [adapter |-> "snov", mode |-> mode,
                                 threw |-> out.threw, data |-> out.data]]
    /\ UNCHANGED <<research, snov, reconcile, schedVars>>

\* AgentOrchestrator.enrichRow up to runDiscoveryAgent(email, ..., { name }).
RunDiscoveryAgent(email, name) ==
    /\ discovery.pc = "idle"
    /\ discovery' = [discovery EXCEPT !.pc = "providers", !.email = email,
                                      !.name = name, !.domain = MatchDomain(email)]
    /\ UNCHANGED <<research, snov, reconcile, schedVars>>

\* await Promise.all([snovPromise, apolloPromise, webResearchPromise, ...]):
\* the Snov and Apollo blocks catch, the web research block does not.
ProvidersSettle(resp, snovData, llm) ==
    /\ discovery.pc = "providers"
    /\ LET web == WebResearchExecute(llm)
       IN  discovery' = [discovery EXCEPT
                !.pc = IF web.threw THEN "threw" ELSE "aggregate",
                !.apolloKind = resp.kind,
                !.apolloData = ApolloExecute(discovery.name, discovery.domain, resp),
                !.snovData = snovData,
                !.llmKind = llm.kind,
                !.llmSignals = Len(llm.priority_signals),
                !.webResult = web.data]
    /\ UNCHANGED <<research, snov, reconcile, schedVars>>

\* The trust evaluation, the picks, baseResult and CompanyAnalysisResult.parse.
Aggregate ==
    /\ discovery.pc = "aggregate"
    /\ LET picks == Picks(discovery.name, discovery.domain, discovery.apolloData,
                          discovery.snovData, discovery.webResult)
           base == BaseResult(discovery.webResult)
       IN  discovery' = [discovery EXCEPT
                !.pc = IF ParseThrows(base) THEN "threw" ELSE "returned",
                !.analysis = IF ParseThrows(base) THEN NoAnalysis
                             ELSE CompanyAnalysis(picks, SourceLabel(picks),
                                                  base.overall_signal_strength,
                                                  base.priority_signals)]
    /\ UNCHANGED <<research, snov, reconcile, schedVars>>

\* The rest of AgentOrchestrator.enrichRow: the enrichments of a returned
\* analysis, or the catch block.
OrchestratorReturn ==
    /\ discovery.pc \in {"returned", "threw"}
    /\ LET row == MkRow(discovery.email, <<>>, <<>>)
       IN  discovery' = [discovery EXCEPT
                !.pc = "done",
                !.result = IF discovery.pc = "returned"
                             THEN CompletedResult(row,
                                      OrchestratorEnrichments(discovery.analysis))
                             ELSE ErrorResult(row)]
    /\ UNCHANGED <<research, snov, reconcile, schedVars>>

NextDiscovery ==
    \/ \E mode \in TransportOutcomes : ExploriumCall(mode)
    \/ \E mode \in TransportOutcomes : SnovCall(mode)
    \/ \E email \in DiscoveryEmails : \E name \in NameHints :
            RunDiscoveryAgent(email, name)
    \/ \E resp \in ApolloResponses : \E snovData \in SnovOutcomes :
            \E llm \in LlmOutcomes : ProvidersSettle(resp, snovData, llm)
    \/ Aggregate
    \/ OrchestratorReturn

SpecDiscovery == InitDiscovery /\ [][NextDiscovery]_vars

(***************************************************************************)
(* The field loop of enrichRow, run twice on the same analysis and fields. *)
(***************************************************************************)
InitReconcile ==
    /\ rows = <<>>
    /\ concurrency = CONCURRENT_ROWS
    /\ activeSessions = {}
    /\ aborted = FALSE
    /\ deleteResponse = 0
    /\ events = <<>>
    /\ progress = {}
    /\ closed = FALSE
    /\ mainPc = "init"
    /\ currentIndex = 0
    /\ activePromises = <<>>
    /\ raceWatch = {}
    /\ rowPc = [i \in {} |-> "queued"]
    /\ microtasks = <<>>
    /\ domainCache = [d \in {} |-> {}]
    /\ providerCalls = {}
    /\ discovery = DiscoveryIdle
    /\ snov = SnovIdle
    /\ research = ResearchIdle
    /\ \E ca \in Analyses : \E l \in FieldLists(MaxFields) :
            reconcile = [ReconcileIdle EXCEPT !.pc = "loop", !.analysis = ca,
                                              !.fields = l]

\* One turn of for (const field of fields).
ReconcileField ==
    /\ reconcile.pc = "loop"
    /\ reconcile.k <= Len(reconcile.fields)
    /\ LET name == reconcile.fields[reconcile.k]
           v == ResolveField(reconcile.analysis, name, LoopValue(reconcile.value))
       IN  reconcile' = [reconcile EXCEPT
                !.k = @ + 1,
                !.value = v,
                !.enrichments = SetEnrichment(@, Join(name), v)]
    /\ UNCHANGED <<research, snov, discovery, schedVars>>

\* return { rowIndex: 0, originalData: row, enrichments, status: 'completed' }
ReconcileReturn ==
    /\ reconcile.pc = "loop"
    /\ reconcile.k > Len(reconcile.fields)
    /\ reconcile' = [reconcile EXCEPT !.pc = "returned"]
    /\ UNCHANGED <<research, snov, discovery, schedVars>>

\* The same analysis and fields are reconciled a second time.
ReconcileAgain ==
    /\ reconcile.pc = "returned"
    /\ reconcile.pass = 1
    /\ reconcile' = [reconcile EXCEPT !.pc = "loop", !.pass = 2, !.k = 1,
                                      !.first = reconcile.enrichments,
                                      !.enrichments = NoEnrichments]
    /\ UNCHANGED <<research, snov, discovery, schedVars>>

NextReconcile ==
    \/ ReconcileField
    \/ ReconcileReturn
    \/ ReconcileAgain

SpecReconcile == InitReconcile /\ [][NextReconcile]_vars

(***************************************************************************)
(* Concurrent calls of the Snov tool: getSnovAccessToken, then one request *)
(* through snovPost / snovGet.                                             *)
(***************************************************************************)
otherVars == <<research, reconcile, discovery, schedVars>>

InitSnov ==
    /\ rows = <<>>
    /\ concurrency = CONCURRENT_ROWS
    /\ activeSessions = {}
    /\ aborted = FALSE
    /\ deleteResponse = 0
    /\ events = <<>>
    /\ progress = {}
    /\ closed = FALSE
    /\ mainPc = "init"
    /\ currentIndex = 0
    /\ activePromises = <<>>
    /\ raceWatch = {}
    /\ rowPc = [i \in {} |-> "queued"]
    /\ microtasks = <<>>
    /\ domainCache = [d \in {} |-> {}]
    /\ providerCalls = {}
    /\ discovery = DiscoveryIdle
    /\ reconcile = ReconcileIdle
    /\ snov = SnovIdle
    /\ research = ResearchIdle

Caller(c) == snov.callers[c]
SetCaller(c, rec) == [snov EXCEPT !.callers[c] = rec]

\* execute calls getSnovAccessToken: the cached token when it is valid, else
\* the request loop for a new one.
TokenCall(c) ==
    /\ Caller(c).pc = "idle"
    /\ snov' = SetCaller(c, [CallerIdle EXCEPT
                !.pc = IF TokenValid(snov.tokenCache, snov.now)
                         THEN "requestLoop" ELSE "tokenLoop"])
    /\ UNCHANGED otherVars

\* while (attempts < maxAttempts) of getSnovAccessToken: the fetch is sent.
TokenFetch(c) ==
    /\ Caller(c).pc = "tokenLoop"
    /\ Caller(c).attempts < TokenMaxAttempts
    /\ snov' = SetCaller(c, [Caller(c) EXCEPT !.pc = "tokenFetch", !.fetches = @ + 1])
    /\ UNCHANGED otherVars

\* The loop of getSnovAccessToken is over: null, and execute answers
\* { has_data: false }.
TokenGiveUp(c) ==
    /\ Caller(c).pc = "tokenLoop"
    /\ Caller(c).attempts >= TokenMaxAttempts
    /\ snov' = SetCaller(c, [Caller(c) EXCEPT !.pc = "nodata"])
    /\ UNCHANGED otherVars

\* The token request is answered.
TokenResponse(c, resp, expiresIn) ==
    /\ Caller(c).pc = "tokenFetch"
    /\ IF resp = "ok"
         THEN snov' = [snov EXCEPT
                !.tokenCache = [token |-> TRUE, expiresAt |-> snov.now + expiresIn],
                !.callers[c] = [CallerIdle EXCEPT !.pc = "requestLoop"]]
       ELSE IF resp = "empty"
         THEN snov' = SetCaller(c, [Caller(c) EXCEPT !.pc = "nodata"])
       ELSE snov' = SetCaller(c, [Caller(c) EXCEPT
                !.pc = "tokenLoop", !.attempts = @ + 1])
    /\ UNCHANGED otherVars

\* while (attempts < maxAttempts) of snovPost / snovGet: the fetch is sent.
RequestFetch(c) ==
    /\ Caller(c).pc = "requestLoop"
    /\ Caller(c).attempts < SnovMaxAttempts
    /\ snov' = SetCaller(c, [Caller(c) EXCEPT !.pc = "requestFetch", !.fetches = @ + 1])
    /\ UNCHANGED otherVars

\* The loop of snovPost / snovGet is over: throw lastError.
RequestGiveUp(c) ==
    /\ Caller(c).pc = "requestLoop"
    /\ Caller(c).attempts >= SnovMaxAttempts
    /\ snov' = SetCaller(c, [Caller(c) EXCEPT !.pc = "threw"])
    /\ UNCHANGED otherVars

\* The API request is answered.
RequestResponse(c, resp) ==
    /\ Caller(c).pc = "requestFetch"
    /\ IF resp = "ok"
         THEN snov' = SetCaller(c, [CallerIdle EXCEPT !.pc = "returned"])
       ELSE IF resp = "429"
         THEN snov' = SetCaller(c, [Caller(c) EXCEPT
                !.pc = "requestLoop",
                !.attempts = AttemptsAfter429(@),
                !.saw429 = TRUE])
       ELSE snov' = SetCaller(c, [Caller(c) EXCEPT
                !.pc = "requestLoop", !.attempts = @ + 1,
                !.sawOther = TRUE])
    /\ UNCHANGED otherVars

\* A minute passes.
Tick ==
    /\ snov.now < MaxTime
    /\ snov' = [snov EXCEPT !.now = @ + 1]
    /\ UNCHANGED otherVars

NextSnov ==
    \/ \E c \in Callers : TokenCall(c)
    \/ \E c \in Callers : TokenFetch(c)
    \/ \E c \in Callers : TokenGiveUp(c)
    \/ \E c \in Callers : \E resp \in TokenResponses : \E e \in ExpiresInChoices :
            TokenResponse(c, resp, e)
    \/ \E c \in Callers : RequestFetch(c)
    \/ \E c \in Callers : RequestGiveUp(c)
    \/ \E c \in Callers : \E resp \in RequestResponses : RequestResponse(c, resp)
    \/ Tick

SpecSnov == InitSnov /\ [][NextSnov]_vars

(***************************************************************************)
(* Calls of runDiscoveryAgent, one after the other, on the module-level    *)
(* cache of the web research tool.                                         *)
(***************************************************************************)
restVars == <<snov, reconcile, discovery, schedVars>>

InitResearch ==
    /\ rows = <<>>
    /\ concurrency = CONCURRENT_ROWS
    /\ activeSessions = {}
    /\ aborted = FALSE
    /\ deleteResponse = 0
    /\ events = <<>>
    /\ progress = {}
    /\ closed = FALSE
    /\ mainPc = "init"
    /\ currentIndex = 0
    /\ activePromises = <<>>
    /\ raceWatch = {}
    /\ rowPc = [i \in {} |-> "queued"]
    /\ microtasks = <<>>
    /\ domainCache = [d \in {} |-> {}]
    /\ providerCalls = {}
    /\ discovery = DiscoveryIdle
    /\ reconcile = ReconcileIdle
    /\ snov = SnovIdle
    /\ research = ResearchIdle

\* runDiscoveryAgent up to the answer of webResearch.execute(baseInput): a
\* cache hit returns cached.data, a miss stores the new object (or null) and
\* returns it.
WebResearch(key, llm, linkedin, verification, label) ==
    /\ research.pc = "idle"
    /\ LET hit == ResearchCacheHit(research.researchCache, key, research.now)
           new == Len(research.heap) + 1
           ref == IF hit THEN research.researchCache[key].data
                  ELSE IF llm = "ok" THEN new ELSE 0
       IN  /\ hit \/ llm # "ok" \/ new <= MaxObjects
           /\ research' = [research EXCEPT
                  !.pc = "researched",
                  !.call = [key |-> key, linkedin |-> linkedin,
                            verification |-> verification, label |-> label,
                            base |-> ref],
                  !.heap = IF ~hit /\ llm = "ok" THEN Append(@, RawAnalysis) ELSE @,
                  !.researchCache = IF hit THEN @
                                    ELSE ResearchCacheSet(@, key, research.now, ref)]
    /\ UNCHANGED restVars

\* The rest of runDiscoveryAgent: baseResult is webResult, or a new object
\* when webResult is null; the overlays are written into it and
\* CompanyAnalysisResult.parse returns a copy.
Overlay ==
    /\ research.pc = "researched"
    /\ LET base == research.call.base
           obj == IF base = 0 THEN RawAnalysis ELSE research.heap[base]
           out == Overlaid(obj, research.call)
       IN  research' = [research EXCEPT
              !.pc = "idle",
              !.call = NoCall,
              !.heap = IF base = 0 THEN @ ELSE [@ EXCEPT ![base] = out],
              !.analysis = out]
    /\ UNCHANGED restVars

\* Time passes.
ResearchTick ==
    /\ research.now < MaxResearchTime
    /\ research' = [research EXCEPT !.now = @ + 1]
    /\ UNCHANGED restVars

NextResearch ==
    \/ \E key \in ResearchKeys, llm \in ResearchLlmKinds, linkedin \in LinkedinChoices,
          verification \in VerificationChoices, label \in LabelChoices :
            WebResearch(key, llm, linkedin, verification, label)
    \/ Overlay
    \/ ResearchTick

SpecResearch == InitResearch /\ [][NextResearch]_vars

(***************************************************************************)
(* Reading the stream.                                                     *)
(***************************************************************************)
EventIdx(ev, t) == {k \in DOMAIN ev : ev[k].type = t}
ResultIdx(ev, i) == {k \in DOMAIN ev : ev[k].type = "result" /\ ev[k].rowIndex = i}
TerminalIdx == EventIdx(events, "complete") \cup EventIdx(events, "cancelled")
TerminalEvents == SelectSeq(events, LAMBDA e : e.type \in {"complete", "cancelled"})
FinalStatuses == {"completed", "skipped", "error"}
Ended == {i \in RowIdx : rowPc[i] \in {"settled", "rejected"}}
RowsWithEmail == {i \in RowIdx : Row(i).email # <<>>}
ResultBefore(i, k) ==
    \E j \in ResultIdx(events, i) : j < k /\ events[j].status \in FinalStatuses

C2_OneResultPerEndedRow ==
    \A i \in RowIdx : i \in Ended => Cardinality(ResultIdx(events, i)) = 1

\* C2: a row whose processing ended while the stream was open has exactly one
\* result event carrying its index, no index is carried by two result events,
\* and a row has no result event when it has not ended or ended after the
\* stream was closed.
C2_OneResultPerDeliveredRow ==
    \A i \in RowIdx :
        /\ Cardinality(ResultIdx(events, i)) = IF rowPc[i] = "settled" THEN 1 ELSE 0
        /\ rowPc[i] = "rejected" => closed

C2_Witness ==
    \E i, j \in RowIdx :
        /\ rowPc[i] = "settled" /\ Cardinality(ResultIdx(events, i)) = 1
        /\ rowPc[j] = "rejected"

\* C3 as stated: when a terminal event (complete or cancelled) is on the
\* stream, every row with an email had a result with a final status before it.
C3_AllRowsFinalAtTerminal ==
    \A k \in TerminalIdx : \A i \in RowsWithEmail : ResultBefore(i, k)

\* C3: when complete is emitted in a session that emitted no cancelled event,
\* every row with an email has had a result with status completed, skipped or
\* error; none is still pending or processing.
C3_AllRowsFinalAtComplete ==
    \A k \in EventIdx(events, "complete") :
        (\A c \in EventIdx(events, "cancelled") : c > k)
            => \A i \in RowsWithEmail : ResultBefore(i, k)

C3_Witness ==
    /\ mainPc = "done"
    /\ EventIdx(events, "cancelled") = {}
    /\ Cardinality(RowsWithEmail) >= 2
    /\ \E i \in RowsWithEmail : i \in providerCalls

\* C4: once cancellation is signalled, no step puts on the stream a result of
\* a row that is in flight.
C4_NoResultAfterCancel ==
    [][aborted => \A i \in InFlight : ResultIdx(events', i) = ResultIdx(events, i)]_vars

\* C5: once cancellation is signalled, a queued row stays queued: it gets no
\* processing event and no provider call.
C5_NoStartAfterCancel ==
    /\ [][aborted => \A i \in RowIdx : rowPc[i] = "queued" => rowPc'[i] = "queued"]_vars
    /\ [](\A i \in RowIdx : rowPc[i] = "queued" =>
            /\ \A k \in EventIdx(events, "processing") : events[k].rowIndex # i
            /\ ResultIdx(events, i) = {}
            /\ i \notin providerCalls)

C5_Witness ==
    /\ aborted /\ mainPc = "done"
    /\ \E i, j \in RowIdx : rowPc[i] = "queued" /\ j \in providerCalls

\* The session of C6: cancelled, ended with row 0 completed and row 1 never
\* started.
C6_Scenario ==
    /\ mainPc = "done" /\ aborted
    /\ NumRows >= 2 /\ currentIndex = 1
    /\ \E k \in ResultIdx(events, 0) : events[k].status = "completed"

\* C6: in a session cancelled after row 0 completed and before row 1 started,
\* the terminal event is cancelled, row 0 has its completed result and row 1
\* has no result.
C6_CancelBetweenRows ==
    C6_Scenario =>
        /\ TerminalEvents = <<CancelledEvent>>
        /\ ResultIdx(events, 0) # {}
        /\ ResultIdx(events, 1) = {}

\* C7: the rows in flight (started, not yet settled) never outnumber the
\* concurrency window, nor do the promises of activePromises.
C7_WindowBound ==
    /\ Cardinality(InFlight) <= concurrency
    /\ Len(activePromises) <= concurrency

C7_Witness ==
    /\ Cardinality(InFlight) = concurrency
    /\ concurrency > 1
    /\ currentIndex < NumRows

C9_WindowOfOneIsSerial ==
    concurrency = 1 =>
        \A j \in RowIdx : (rowPc[j] # "queued" \/ j \in providerCalls) =>
            \A i \in 0..(j - 1) : i \in Ended

C9_Witness ==
    /\ concurrency = 1
    /\ \E i, j \in providerCalls : i < j /\ rowPc[j] = "orch"

SameDomain(i, j) ==
    /\ PrimaryDomain(Row(i)) # <<>>
    /\ PrimaryDomain(Row(i)) = PrimaryDomain(Row(j))

\* C10 as stated: no two rows of the same normalized domain both trigger
\* provider calls.
C10_OneDiscoveryPerDomain ==
    \A i, j \in providerCalls : i # j => ~SameDomain(i, j)

\* C10: a provider call is made only for a row whose domain has no cache entry
\* at its cache lookup, and with a window of 1 no two rows of the same
\* non-empty normalized domain both trigger provider calls.
C10_CacheHitSkipsDiscovery ==
    /\ [][\A i \in providerCalls' \ providerCalls :
            PrimaryDomain(Row(i)) \notin DOMAIN domainCache]_vars
    /\ [](concurrency = 1 => C10_OneDiscoveryPerDomain)

C10_Witness ==
    /\ concurrency = 1
    /\ \E i, j \in RowIdx :
        /\ i < j /\ SameDomain(i, j)
        /\ i \in providerCalls /\ j \notin providerCalls
        /\ rowPc[j] = "settled"
        /\ ProgressEvent(j, "Cache hit") \in progress

FirstOfDomain(i) == \A h \in RowIdx : SameDomain(h, i) => i <= h
EnrichedFields(k) == events[k].enrichments

SkipRows == {i \in RowIdx : Row(i).email # <<>> /\ ShouldSkipEmail(Row(i).email)}
Started == {i \in RowIdx : i < currentIndex}

\* C12: a row whose email matches the skip predicate gets, as soon as it is
\* started, one result of status skipped whose error is the skip reason, and
\* neither a provider call nor any processing or progress event is ever
\* issued for it.
C12_SkippedBeforeProviders ==
    \A i \in SkipRows :
        /\ i \notin providerCalls
        /\ i \in Started <=> Cardinality(ResultIdx(events, i)) = 1
        /\ \A k \in ResultIdx(events, i) :
            /\ events[k].status = "skipped"
            /\ events[k].error = GetSkipReason(Row(i).email)
            /\ events[k].enrichments = {}
        /\ \A k \in EventIdx(events, "processing") : events[k].rowIndex # i
        /\ \A e \in progress : e.rowIndex # i

C12_Witness ==
    \E i \in SkipRows : \E j \in providerCalls :
        /\ j < i
        /\ \E k \in ResultIdx(events, i) : events[k].status = "skipped"

NoEmailRows == {i \in RowIdx : Row(i).email = <<>>}

\* C16: a row without email gets a result of status error that carries the
\* message of the strategy, its promise never rejects, and a session that is
\* not cancelled ends with one result for every row and the complete event as
\* its only terminal event.
C16_NoEmailIsRowError ==
    /\ \A i \in NoEmailRows :
        /\ rowPc[i] # "rejected"
        /\ rowPc[i] = "settled" => Cardinality(ResultIdx(events, i)) = 1
        /\ \A k \in ResultIdx(events, i) :
            /\ events[k].status = "error"
            /\ events[k].error = "No email found in specified column"
    /\ (NoEmailRows # {} /\ ~aborted /\ mainPc = "done") =>
        /\ \A j \in RowIdx : Cardinality(ResultIdx(events, j)) = 1
        /\ TerminalEvents = <<CompleteEvent>>

C16_Witness ==
    /\ ~aborted /\ mainPc = "done"
    /\ \E i \in NoEmailRows : \E j \in providerCalls :
        /\ i < j
        /\ \E k \in ResultIdx(events, i) : events[k].status = "error"
        /\ \E l \in ResultIdx(events, j) : events[l].status = "completed"

\* C17 as stated: a cancellation request for a session that has finished or
\* was cancelled before has the outcome of a first cancellation, the success
\* response.
C17_SameOutcome ==
    [][(aborted \/ mainPc = "done") => deleteResponse' \in {0, 200}]_vars

\* C17: a cancellation request for a session that is no longer registered
\* (finished, or cancelled before) leaves the abort flag, the registry, the
\* stream and the scheduler as they are, and is answered 404.
C17_RepeatCancelChangesNothing ==
    /\ [][SessionId \notin activeSessions =>
            /\ aborted' = aborted
            /\ activeSessions' = activeSessions
            /\ deleteResponse' \in {0, 404}]_vars
    /\ [][deleteResponse' = 404 =>
            UNCHANGED <<research, snov, reconcile, discovery, rows, concurrency, activeSessions, aborted, events,
                        progress, closed, mainPc, currentIndex, activePromises,
                        raceWatch, rowPc, microtasks, domainCache,
                        providerCalls>>]_vars

C17_Witness ==
    /\ aborted
    /\ deleteResponse = 404
    /\ EventIdx(events, "cancelled") # {}

ResultEvents == EventIdx(events, "result")

\* C19: every result event carries the index and the data of the input row it
\* was computed from: the step that settles row i appends a result of
\* rowIndex i, and the status of a result in the stream is the one its own
\* row's email calls for (skipped for a skip row, error for a missing email).
C19_ResultKeyedByRow ==
    /\ [][\A i \in RowIdx :
            rowPc[i] # "settled" /\ rowPc'[i] = "settled" /\ events' # events =>
                /\ Len(events') = Len(events) + 1
                /\ SubSeq(events', 1, Len(events)) = events
                /\ events'[Len(events')].type = "result"
                /\ events'[Len(events')].rowIndex = i
                /\ events'[Len(events')].originalData = Row(i)]_vars
    /\ [](\A k \in ResultEvents :
            /\ events[k].rowIndex \in RowIdx
            /\ rowPc[events[k].rowIndex] = "settled"
            /\ events[k].originalData = Row(events[k].rowIndex)
            /\ events[k].status = "skipped" <=> events[k].rowIndex \in SkipRows
            /\ events[k].rowIndex \in NoEmailRows => events[k].status = "error"
            /\ events[k].rowIndex \notin providerCalls
                    /\ events[k].status = "completed"
                => ProgressEvent(events[k].rowIndex, "Cache hit") \in progress)

C19_Witness ==
    \E k, l, m \in ResultEvents :
        /\ k < l
        /\ events[k].rowIndex > events[l].rowIndex
        /\ events[k].status = "skipped"
        /\ events[l].status = "error"
        /\ events[m].status = "completed"
        /\ events[m].rowIndex > 0
        /\ events[m].rowIndex \notin providerCalls

(***************************************************************************)
(* Reading a call of the orchestrator.                                     *)
(***************************************************************************)
SnovNoData == discovery.snovData.isNull \/ ~discovery.snovData.has_data
WebResearchFailed == discovery.llmKind \in {"throws", "null"}
AllProvidersUnreachable ==
    /\ discovery.apolloKind = "unreachable"
    /\ SnovNoData
    /\ WebResearchFailed

\* C13 as stated: a row with a valid email for which every provider is
\* unreachable gets a result of status completed with no enrichments.
C13_UnreachableIsCompletedEmpty ==
    (discovery.pc = "done" /\ discovery.domain # <<>> /\ AllProvidersUnreachable) =>
        /\ discovery.result.status = "completed"
        /\ discovery.result.enrichments = {}

\* C14 as stated: a call of a provider adapter returns to its caller, whatever
\* the transport does; it never throws.
C14_AdaptersNeverThrow ==
    discovery.pc = "adapter" => ~discovery.adapterCall.threw

\* C15 as stated: when web research fails, runDiscoveryAgent returns an
\* analysis without signals whose overall_signal_strength is low.
C15_MinimalAnalysisOnWebFailure ==
    (discovery.pc \in {"returned", "threw"} /\ WebResearchFailed) =>
        /\ discovery.pc = "returned"
        /\ discovery.analysis.priority_signals = <<>>
        /\ discovery.analysis.overall_signal_strength = "low"

\* Lower-case, without scheme and www.
CleanDomain(d) == StripWww(StripScheme(ToLowerCase(Trim(d))))
CleanName(n) == ToLowerCase(Trim(n))

DomainFlag ==
    /\ CleanDomain(discovery.domain) # <<>>
    /\ CleanDomain(discovery.apolloData.company_domain) # <<>>
    /\ CleanDomain(discovery.domain) # CleanDomain(discovery.apolloData.company_domain)
NameFlag ==
    /\ CleanName(discovery.name) # <<>>
    /\ CleanName(discovery.apolloData.company_name) # <<>>
    /\ ~Includes(CleanName(discovery.apolloData.company_name), CleanName(discovery.name))
DotFlag == HasDot(discovery.apolloData.company_name)
TrustFlag == DomainFlag \/ NameFlag \/ DotFlag

PickedFrom(src) ==
    {f \in FirmographicFields : discovery.analysis.picks[f].source = src}

\* C18: when the answer of the primary provider raises a trust flag (its
\* domain, cleaned, differs from the requested one; its name does not contain
\* the requested name; its name contains a dot), no firmographic field of the
\* analysis takes its value from that provider.
C18_FlaggedAnswerNotPicked ==
    (discovery.pc \in {"returned", "done"} /\ TrustFlag) => PickedFrom("apollo") = {}

C18_Witness ==
    /\ discovery.pc = "returned"
    /\ discovery.apolloKind = "record"
    /\ NameFlag /\ ~DomainFlag /\ ~DotFlag
    /\ PickedFrom("snov") # {}

\* C20: the priority_signals list of every analysis runDiscoveryAgent returns
\* has at most 7 elements, however many signals the web research listed.
C20_AtMostSevenSignals ==
    discovery.pc \in {"returned", "done"} =>
        Len(discovery.analysis.priority_signals) <= 7

C20_Witness ==
    /\ discovery.pc = "returned"
    /\ discovery.llmSignals > 7
    /\ Len(discovery.analysis.priority_signals) = 7

(***************************************************************************)
(* Row lifecycle on the stream, cancellation and the domain cache.         *)
(***************************************************************************)
StatusIdx(i) ==
    {k \in DOMAIN events : events[k].type \in {"pending", "processing"}
                              /\ events[k].rowIndex = i}
ProcessingIdx(i) ==
    {k \in DOMAIN events : events[k].type = "processing" /\ events[k].rowIndex = i}

\* C25 as stated: every result event of a row, a skipped one included, comes
\* after a processing event of that row, and no pending or processing event of
\* the row comes after its result.
C25_ProcessingBeforeResult ==
    \A i \in RowIdx : \A k \in ResultIdx(events, i) :
        /\ \E j \in ProcessingIdx(i) : j < k
        /\ \A j \in StatusIdx(i) : j < k

\* C26 as stated: when the session has ended and cancellation was signalled
\* before its terminal event, the terminal event is cancelled and no complete
\* event is on the stream.
C26_CancelledNotComplete ==
    (mainPc = "done" /\ aborted) =>
        /\ EventIdx(events, "cancelled") # {}
        /\ EventIdx(events, "complete") = {}

\* C26, the weaker half alone: a session cancelled before its terminal event
\* emits a cancelled event at all.
C26_CancelledEmitted ==
    (mainPc = "done" /\ aborted) => EventIdx(events, "cancelled") # {}

\* C27 as stated: a domain has a cache entry only when a row of that domain
\* reached the providers and ended with a completed result.
C27_CacheOnlyFromCompletedRow ==
    \A d \in DOMAIN domainCache :
        \E i \in providerCalls :
            /\ PrimaryDomain(Row(i)) = d
            /\ \E k \in ResultIdx(events, i) : events[k].status = "completed"

\* C28 as stated: a step never removes a domain's cache entry and never
\* changes the value stored under it.
C28_CacheEntryImmutable ==
    [][\A d \in DOMAIN domainCache :
          d \in DOMAIN domainCache' /\ domainCache'[d] = domainCache[d]]_vars

(***************************************************************************)
(* The concurrent lookups of one row.                                      *)
(***************************************************************************)
FailedLookups ==
    (IF discovery.apolloKind = "unreachable" THEN {"apollo"} ELSE {})
        \cup (IF discovery.snovData.isNull THEN {"snov"} ELSE {})
        \cup (IF discovery.llmKind = "throws" THEN {"web"} ELSE {})

\* C29 as stated: when exactly one of the concurrent lookups of a row fails,
\* the analysis is still built from the others and the row result is
\* completed, not error.
C29_SingleFailureIsolated ==
    (discovery.pc = "done" /\ Cardinality(FailedLookups) = 1) =>
        /\ discovery.analysis # NoAnalysis
        /\ discovery.result.status = "completed"

(***************************************************************************)
(* The layers behind a firmographic field.                                 *)
(***************************************************************************)
\* What each layer has for field f in the call at hand, <<>> when nothing.
LayerValue(f, layer) ==
    CASE layer = "apollo" ->
            IF ApolloOK(discovery.name, discovery.domain, discovery.apolloData)
              THEN discovery.apolloData[f] ELSE <<>>
      [] layer = "snov" ->
            IF discovery.snovData.isNull \/ ~discovery.snovData.has_data THEN <<>>
            ELSE IF f = "company_name" THEN Trim(discovery.snovData.company_name)
            ELSE IF f = "company_domain"
              THEN NormalizeDomain(Trim(discovery.snovData.website))
            ELSE IF f = "company_industry" THEN Trim(discovery.snovData.industry)
            ELSE <<>>
      [] layer = "web" ->
            IF f = "company_name" /\ ~discovery.webResult.isNull
              THEN discovery.webResult.company_name ELSE <<>>
      [] layer = "input" ->
            IF f = "company_name" THEN discovery.name
            ELSE IF f = "company_domain" THEN discovery.domain
            ELSE <<>>
      [] OTHER -> IF f = "company_competitors" THEN <<>> ELSE Unknown

LayerOrder == <<"apollo", "snov", "web", "input">>

\* The first layer of LayerOrder with a value for f, "unknown" when none has.
WinningLayer(f) ==
    LET having == {k \in DOMAIN LayerOrder : LayerValue(f, LayerOrder[k]) # <<>>}
    IN  IF having = {} THEN "unknown"
        ELSE LayerOrder[CHOOSE k \in having : \A h \in having : k <= h]

\* C30 as stated: every firmographic field of a returned analysis carries the
\* value of the highest layer that has one, in the order Apollo, Snov, web
\* research, input hint, literal unknown, and its source names that layer.
C30_HighestLayerWins ==
    discovery.pc = "returned" =>
        \A f \in FirmographicFields :
            discovery.analysis.picks[f] =
                Pick(LayerValue(f, WinningLayer(f)), WinningLayer(f))

(***************************************************************************)
(* The order of the signals of an analysis.                                *)
(***************************************************************************)
\* a may stand before b: it weighs more, or the same and is not less recent.
RanksBefore(a, b) ==
    \/ NewWeight(a) > NewWeight(b)
    \/ NewWeight(a) = NewWeight(b) /\ (SignalRecent(a) \/ ~SignalRecent(b))

\* C21 as stated: the priority_signals of every returned analysis are in
\* descending order of weight, the more recent first among equal weights.
C21_SignalsByWeightThenRecency ==
    discovery.pc = "returned" =>
        \A j, k \in DOMAIN discovery.analysis.priority_signals :
            j < k => RanksBefore(discovery.analysis.priority_signals[j],
                                 discovery.analysis.priority_signals[k])

(***************************************************************************)
(* Reading a reconciliation.                                               *)
(***************************************************************************)
Unresolved(name) ==
    ResolveField(reconcile.analysis, name, JsUndefined).type \in {"null", "undefined"}

C23_EveryKeyHasBothAliases ==
    \A key \in DOMAIN DerivedMap(reconcile.analysis) :
        /\ \E a \in DOMAIN EnglishAliases : EnglishAliases[a] = key
        /\ \E a \in DOMAIN PortugueseAliases : PortugueseAliases[a] = key

SourceLabels == {"apollo", "snov", "web", "multiple", "unknown"}

DomainHint(row) == OrElse(row.company_domain, row.domain)

\* The domain runDiscoveryAgent hands to the providers for a row, cleaned as
\* the cache key is.
LookupDomain(row) == CleanDomain(MatchDomain(row.email))

\* C32 as stated: for a row with a domain hint whose discovery has run, the
\* providers were asked about the cleaned hint, and once the row has settled
\* its enrichment is cached under that same domain.
C32_HintIsLookupAndCacheKey ==
    \A i \in providerCalls :
        DomainHint(Row(i)) # <<>> =>
            /\ PrimaryDomain(Row(i)) = CleanDomain(DomainHint(Row(i)))
            /\ LookupDomain(Row(i)) = PrimaryDomain(Row(i))
            /\ rowPc[i] \in {"settled", "rejected"} =>
                    PrimaryDomain(Row(i)) \in DOMAIN domainCache

(***************************************************************************)
(* Reading the calls of the Snov tool.                                     *)
(***************************************************************************)
RefreshesInFlight == {c \in Callers : Caller(c).pc = "tokenFetch"}
InTokenLoop(c) == Caller(c).pc \in {"tokenLoop", "tokenFetch", "nodata"}
InRequestLoop(c) == Caller(c).pc \in {"requestLoop", "requestFetch", "threw"}
GaveUpOn429Only(c) ==
    Caller(c).pc = "threw" /\ Caller(c).saw429 /\ ~Caller(c).sawOther
GaveUpOnOtherOnly(c) ==
    Caller(c).pc = "threw" /\ Caller(c).sawOther /\ ~Caller(c).saw429

\* C33 as stated: at most one token request is in flight at any time.
C33_SingleFlightRefresh ==
    Cardinality(RefreshesInFlight) <= 1

\* C34: a call sends the token request at most 3 times and an API request
\* at most 4 times, whatever the answers are; a fetch is only sent while the
\* attempts are under the cap, and at the cap the call gives up.
C34_RetriesBounded ==
    \A c \in Callers :
        /\ InTokenLoop(c) => /\ Caller(c).fetches <= TokenMaxAttempts
                             /\ Caller(c).attempts <= TokenMaxAttempts
        /\ InRequestLoop(c) => /\ Caller(c).fetches <= SnovMaxAttempts
                               /\ Caller(c).attempts <= SnovMaxAttempts
        /\ Caller(c).pc = "tokenFetch" => Caller(c).attempts < TokenMaxAttempts
        /\ Caller(c).pc = "requestFetch" => Caller(c).attempts < SnovMaxAttempts
        /\ Caller(c).pc = "threw" => Caller(c).fetches = SnovMaxAttempts

\* One call gave up on the token after 3 requests, another on an API request
\* after 4 answers that were 429 and other failures.
C34_Witness ==
    \E c, d \in Callers :
        /\ Caller(c).pc = "nodata" /\ Caller(c).fetches = TokenMaxAttempts
        /\ Caller(d).pc = "threw" /\ Caller(d).fetches = SnovMaxAttempts
        /\ Caller(d).saw429 /\ Caller(d).sawOther

\* C35 as stated: a request that gave up on failures other than 429 was sent
\* fewer times than one that gave up on 429 answers, and the delay after a
\* 429 answer never exceeds the cap.
C35_FewerAttemptsOnOtherFailures ==
    /\ \A c, d \in Callers :
            (GaveUpOnOtherOnly(c) /\ GaveUpOn429Only(d)) =>
                Caller(c).fetches < Caller(d).fetches
    /\ \A c \in Callers :
            Caller(c).saw429 => RateLimitWaitMs(Caller(c).attempts) <= BackoffCapMs


(***************************************************************************)
(* Session errors, the end of the stream and the session registry.         *)
(***************************************************************************)
SessionTerminalTypes == {"complete", "cancelled", "error"}
SessionTerminalIdx == {k \in DOMAIN events : events[k].type \in SessionTerminalTypes}
ErrorEmitted == EventIdx(events, "error") # {}
SessionEnded == mainPc \in {"done", "rejected500"}

\* C36: after a session-level error event no further row is started, and the
\* result events already on the stream are neither retracted nor superseded:
\* every step taken after the error event leaves currentIndex and the rows
\* not yet started as they are, keeps the events emitted so far in place, and
\* adds no result event for a row that already has one.
C36_NoStartAfterSessionError ==
    [][ErrorEmitted =>
        /\ currentIndex' = currentIndex
        /\ \A i \in RowIdx : rowPc[i] = "queued" => rowPc'[i] = "queued"
        /\ Len(events') >= Len(events)
        /\ SubSeq(events', 1, Len(events)) = events
        /\ \A k \in (DOMAIN events') \ (DOMAIN events) :
              events'[k].type = "result" => ResultIdx(events, events'[k].rowIndex) = {}]_vars

\* A session error with a result already emitted and a row never started.
C36_Witness ==
    /\ ErrorEmitted
    /\ closed
    /\ currentIndex < NumRows
    /\ \E k \in DOMAIN events : events[k].type = "result"

\* C37: the terminal event is the last event of the stream (no processing or
\* result event follows it, and no agent_progress event is added once the
\* stream is closed), and no write is attempted on a closed stream: no row
\* ends with controller.enqueue throwing on the closed stream.
C37_TerminalIsLastNoWriteAfterClose ==
    /\ \A t \in SessionTerminalIdx : \A k \in DOMAIN events :
          k > t => events[k].type \notin {"processing", "result", "agent_progress"}
    /\ \A i \in RowIdx : rowPc[i] # "rejected"

\* C39: once a session has ended, by completion, cancellation, session error
\* or rejection at start-up, its id is no longer in activeSessions.
C39_EndedSessionNotRegistered ==
    SessionEnded => SessionId \notin activeSessions


\* The loop of start(controller) is over with rows it never started.
StoppedWithUnstartedRows == mainPc = "done" /\ currentIndex < NumRows
StreamEnded == closed /\ SessionTerminalIdx # {}

\* C38 as stated: every session eventually emits a terminal event and closes
\* its stream, and the loop never stops while unstarted rows remain unless
\* the session was cancelled.
C38_EndsAndStopsOnlyOnCancel ==
    /\ <>StreamEnded
    /\ [](StoppedWithUnstartedRows => aborted)

\* C38: when every started row's enrichment settles, every session
\* eventually emits a terminal event and closes its stream, and the loop
\* stops with unstarted rows left only in a session that was cancelled or
\* that ended with a session error.
C38_EndsAndStopsOnlyOnCancelOrError ==
    /\ <>StreamEnded
    /\ [](StoppedWithUnstartedRows => aborted \/ ErrorEmitted)

\* The loop has waited on Promise.race more than once and the stream ended
\* with every row started.
C38_Witness ==
    /\ StreamEnded
    /\ ~aborted
    /\ currentIndex = NumRows
    /\ NumRows > concurrency
    /\ \A i \in RowIdx : rowPc[i] \in {"settled", "passed"}


(***************************************************************************)
(* The web-research cache.                                                 *)
(***************************************************************************)
\* The object a cache entry holds is the same before and after the step.
EntryKept(k) ==
    /\ k \in DOMAIN research'.researchCache
    /\ research'.researchCache[k] = research.researchCache[k]
    /\ research.researchCache[k].data # 0

\* C40: a web-research cache entry is never changed after it is stored, and
\* the analysis a call returns carries no overlay of another row: its
\* LinkedIn URL and its email verification are the row's own, or absent.
C40_CacheEntryNeverChanged ==
    [][/\ \A k \in DOMAIN research.researchCache :
            EntryKept(k) =>
                research'.heap[research.researchCache[k].data]
                    = research.heap[research.researchCache[k].data]
       /\ research.pc = "researched" =>
            /\ research'.analysis.linkedin_url = research.call.linkedin
            /\ research'.analysis.email_verification = research.call.verification]_vars

====
